---- MODULE Spec2Model ----
(***************************************************************************)
(* Model of the assignment decision engine of csm_routing_automation.py:   *)
(* the propose -> review -> retry loop of CSMRoutingAutomation.run, the     *)
(* single-account scorer, the batch optimizer, the exclusion governor and   *)
(* the recommendation store they read and write.                            *)
(*                                                                          *)
(* Agents (CSMs) are the integers 1..NumCsms in the order of                *)
(* eligible_csm_list; accounts are 1..batch in DataFrame order.  Scores are *)
(* exact rationals kept as a pair [hi, lo] worth hi*1000 + lo/LoScale.      *)
(***************************************************************************)
EXTENDS Integers, Sequences, FiniteSets, TLC

\* ------------------------------------------------------------------ bounds
NumCsms == 3
MaxBatch == 2
MaxSubstitutions == 1
MaxHistory == 6
MaxGovCalls == 2
MaxScoreCsms == 6
MaxPlacements == 2

\* ------------------------------------------------------- program constants
max_retries == 2
MaxAccountsPerCsm == 105
HighNeediness == 8
NewCsmCountThreshold == 40

NoCsm == 0
UnknownCsm == NumCsms + 1
AllCsms == 1..NumCsms

\* ------------------------------------------------------------ small helpers
Max(a, b) == IF a >= b THEN a ELSE b

RECURSIVE SumSet(_, _)
SumSet(S, f) ==
  IF S = {} THEN 0
  ELSE LET x == CHOOSE y \in S : TRUE IN f[x] + SumSet(S \ {x}, f)

\* ascending list of a finite set of integers
RECURSIVE SetToSeq(_)
SetToSeq(S) ==
  IF S = {} THEN <<>>
  ELSE LET m == CHOOSE x \in S : \A y \in S : x <= y IN <<m>> \o SetToSeq(S \ {m})

SeqRange(s) == {s[i] : i \in 1..Len(s)}

\* ------------------------------------------------- exact score arithmetic
LoScaleFor(n) == 100 * n * n
PairNorm(s, m) == [hi |-> s.hi + (s.lo \div m), lo |-> s.lo % m]
PairLess(s, t, m) ==
  LET a == PairNorm(s, m)
      b == PairNorm(t, m)
  IN a.hi < b.hi \/ (a.hi = b.hi /\ a.lo < b.lo)
ScoreLess(s, t, n) == PairLess(s, t, 1000 * LoScaleFor(n))

VARIABLES pc, batch, claude_client, recs_ok, csm_books, start_books, assignments,
          retry_count, recently_assigned, assignment_alternatives, recs,
          assignments_table, llm_feedback, log, warned, clock,
          builds, lastProposal, lastVerdict, plain_rejects,
          eligible_csm_list, fetches

vars == <<pc, batch, claude_client, recs_ok, csm_books, start_books, assignments,
          retry_count, recently_assigned, assignment_alternatives, recs,
          assignments_table, llm_feedback, log, warned, clock,
          builds, lastProposal, lastVerdict, plain_rejects,
          eligible_csm_list, fetches>>

\* ----------------------------------------------------- account attributes
\* the enriched account records the data provider hands to run()
neediness_score(a) == IF a % 2 = 1 THEN 9 ELSE 3
revenue(a) == IF a % 2 = 1 THEN 2 ELSE 1
tad_score(a) == IF a % 3 = 0 THEN 1 ELSE 0
health_segment(a) == IF a % 3 = 1 THEN "Red" ELSE IF a % 3 = 2 THEN "Green" ELSE "Yellow"

\* ------------------------------------------------ agent static attributes
tenure_months(c) ==
  IF c % 5 = 1 THEN 2 ELSE IF c % 5 = 2 THEN 12 ELSE IF c % 5 = 3 THEN 30
  ELSE IF c % 5 = 4 THEN 4 ELSE 8

tenure_category(c) ==
  LET m == tenure_months(c)
  IN IF m < 3 THEN "New" ELSE IF m < 6 THEN "Junior" ELSE IF m < 12 THEN "Mid"
     ELSE IF m < 24 THEN "Senior" ELSE "Expert"

health_distribution(c) ==
  IF c % 2 = 1 THEN [Red |-> 4, Yellow |-> 3, Green |-> 3, total |-> 10]
  ELSE [Red |-> 1, Yellow |-> 2, Green |-> 7, total |-> 10]

\* --------------------------------------------------------------- the store
\* ages of stored rows: 1 = under 1 hour, 2 = 1-2 hours, 3 = 2-4 hours,
\* 4 = 4-24 hours, 5 = 1-7 days
AgeNow == 1
Within1h == 1
Within2h == 2
Within4h == 3
Within24h == 4
Within7d == 5

RecRow(a, c, method, run, age) ==
  [account_id |-> a, recommended_csm |-> c, assignment_method |-> method,
   run_id |-> run, age |-> age, neediness_score |-> neediness_score(a),
   was_assigned |-> FALSE]

\* a count that reads the assignments table alone
ActivityCountAssignmentsOnly(c, rec, table, maxAge) ==
  Cardinality({r \in table : r.csm_name = c /\ r.age <= maxAge})

\* a count that reads the recommendations table alone
ActivityCountRecommendationsOnly(c, rec, table, maxAge) ==
  Cardinality({i \in 1..Len(rec) : rec[i].recommended_csm = c /\ rec[i].age <= maxAge})

\* number of rows of both tables naming csm c that are at most maxAge old
ActivityCount(c, rec, table, maxAge) ==
  Cardinality({i \in 1..Len(rec) : rec[i].recommended_csm = c /\ rec[i].age <= maxAge})
  + Cardinality({r \in table : r.csm_name = c /\ r.age <= maxAge})

cache_all_csm_recency_data(csm_list, rec, table, dbOk) ==
  [c \in csm_list |->
     IF ~dbOk
     THEN [last_1_hour |-> 0, last_4_hours |-> 0, last_24_hours |-> 0,
           recent_assignments_7d |-> 0, avg_high |-> FALSE]
     ELSE LET mine == {i \in 1..Len(rec) : rec[i].recommended_csm = c /\ rec[i].age <= Within7d}
              need == [i \in mine |-> rec[i].neediness_score]
          IN [last_1_hour |-> ActivityCount(c, rec, table, Within1h),
              last_4_hours |-> ActivityCount(c, rec, table, Within4h),
              last_24_hours |-> ActivityCount(c, rec, table, Within24h),
              recent_assignments_7d |-> ActivityCount(c, rec, table, Within7d),
              \* AVG(neediness_score) > 7 over the recommendation rows
              avg_high |-> mine # {} /\ SumSet(mine, need) > 7 * Cardinality(mine)]]

\* a penalty whose hour terms grow linearly instead of quadratically
RecencyBigLinear(r) ==
  LET n1 == r.last_1_hour
      d4 == r.last_4_hours - r.last_1_hour
      d24 == r.last_24_hours - r.last_4_hours
  IN [k1000 |-> (IF n1 > 0 THEN 1000 * n1 ELSE 0)
                + (IF d4 > 0 THEN 100 * d4 ELSE 0)
                + (IF d24 > 0 THEN 10 * d24 ELSE 0),
      small |-> (IF r.recent_assignments_7d > 5 THEN 50 * (r.recent_assignments_7d - 5) ELSE 0)
                + (IF r.avg_high THEN 50 ELSE 0)]

\* penalty split as [hi, lo]: hi in units of 1000 before the tenure
\* multiplier, lo the part below 1000
RecencyBig(r) ==
  LET n1 == r.last_1_hour
      d4 == r.last_4_hours - r.last_1_hour
      d24 == r.last_24_hours - r.last_4_hours
  IN [k1000 |-> (IF n1 > 0 THEN 1000 * n1 * n1 ELSE 0)
                + (IF d4 > 0 THEN 100 * d4 * d4 ELSE 0)
                + (IF d24 > 0 THEN 10 * d24 * d24 ELSE 0),
      small |-> (IF r.recent_assignments_7d > 5 THEN 50 * (r.recent_assignments_7d - 5) ELSE 0)
                + (IF r.avg_high THEN 50 ELSE 0)]

calculate_assignment_recency_penalty(r) ==
  LET p == RecencyBig(r) IN [hi |-> p.k1000, lo |-> p.small]

\* ------------------------------------------------------ exclusion governor
TierWindow(num) == IF num <= 5 THEN Within2h ELSE IF num <= 20 THEN Within1h ELSE Within4h
\* a small-batch tier that tolerates two recorded rows
TierMaxAllowedLenient(num) == IF num <= 5 THEN 2 ELSE IF num <= 20 THEN 2 ELSE 5

TierMaxAllowed(num) == IF num <= 5 THEN 0 ELSE IF num <= 20 THEN 2 ELSE 5

\* every name that occurs in either table
StoreNames(rec, table) ==
  {rec[i].recommended_csm : i \in 1..Len(rec)} \cup {r.csm_name : r \in table}

\* a governor that excludes only at exactly one row over the maximum
get_recently_assigned_exact(current_batch_assignments, num, rec, table, dbOk) ==
  LET batch_csms == {current_batch_assignments[a] : a \in DOMAIN current_batch_assignments} \ {NoCsm}
      byQuery == IF dbOk
                 THEN {c \in StoreNames(rec, table) :
                         ActivityCount(c, rec, table, TierWindow(num)) = TierMaxAllowed(num) + 1}
                 ELSE {}
  IN batch_csms \cup byQuery

get_recently_assigned_csms(current_batch_assignments, num, rec, table, dbOk) ==
  LET batch_csms == {current_batch_assignments[a] : a \in DOMAIN current_batch_assignments} \ {NoCsm}
      byQuery == IF dbOk
                 THEN {c \in StoreNames(rec, table) :
                         ActivityCount(c, rec, table, TierWindow(num)) > TierMaxAllowed(num)}
                 ELSE {}
  IN batch_csms \cup byQuery

\* ------------------------------------------------------------------ scorer
\* n^2 * np.var(values) for the values f[c], c in S
VarScaled(S, f) ==
  LET n == Cardinality(S)
      sq == [c \in S |-> f[c] * f[c]]
      total == SumSet(S, f)
  IN n * SumSet(S, sq) - total * total

simulate_add(books, c, a) ==
  [books EXCEPT ![c] = [count |-> @.count + 1,
                        total_neediness |-> @.total_neediness + neediness_score(a),
                        total_revenue |-> @.total_revenue + revenue(a),
                        total_tad |-> @.total_tad + tad_score(a)]]

simulate_remove(books, c, a) ==
  [books EXCEPT ![c] = [count |-> @.count - 1,
                        total_neediness |-> @.total_neediness - neediness_score(a),
                        total_revenue |-> @.total_revenue - revenue(a),
                        total_tad |-> @.total_tad - tad_score(a)]]

\* the four weighted variances, times LoScale
BalanceTerm(books) ==
  LET S == DOMAIN books
  IN 20 * VarScaled(S, [c \in S |-> books[c].count])
     + 25 * VarScaled(S, [c \in S |-> books[c].total_neediness])
     + 15 * VarScaled(S, [c \in S |-> books[c].total_revenue])
     + 20 * VarScaled(S, [c \in S |-> books[c].total_tad])

\* capacity pressure in units of 1000
CapacityPenalty(current_count) ==
  LET max_accounts == MaxAccountsPerCsm
      warning_threshold == max_accounts - 5
  IN IF current_count >= max_accounts
     THEN (current_count - (max_accounts - 1)) * 10000
     ELSE IF current_count >= warning_threshold
     THEN (current_count - (warning_threshold - 1)) * 1000
     ELSE IF current_count >= warning_threshold - 10
     THEN (current_count - (warning_threshold - 11)) * 100
     ELSE 0

\* a health term whose tenure adjustments for Red accounts have the wrong sign
HealthTermFlipped(a, c) ==
  LET h == health_distribution(c)
      t == Max(h.total, 1)
      cat == tenure_category(c)
  IN IF health_segment(a) = "Red"
     THEN (IF 10 * h.Red > 3 * t THEN 50 ELSE 0)
          + (IF cat = "New" THEN -80 ELSE IF cat = "Junior" THEN -40
             ELSE IF cat \in {"Senior", "Expert"} THEN 10 ELSE 0)
     ELSE IF health_segment(a) = "Green"
     THEN (IF 2 * h.Green > t THEN 20 ELSE 0)
          + (IF cat = "New" /\ 10 * h.Green < 6 * t THEN -5 ELSE 0)
     ELSE (IF 10 * h.Yellow > 4 * t THEN 15 ELSE 0)

HealthTerm(a, c) ==
  LET h == health_distribution(c)
      t == Max(h.total, 1)
      cat == tenure_category(c)
  IN IF health_segment(a) = "Red"
     THEN (IF 10 * h.Red > 3 * t THEN 50 ELSE 0)
          + (IF cat = "New" THEN 80 ELSE IF cat = "Junior" THEN 40
             ELSE IF cat \in {"Senior", "Expert"} THEN -10 ELSE 0)
     ELSE IF health_segment(a) = "Green"
     THEN (IF 2 * h.Green > t THEN 20 ELSE 0)
          + (IF cat = "New" /\ 10 * h.Green < 6 * t THEN -5 ELSE 0)
     ELSE (IF 10 * h.Yellow > 4 * t THEN 15 ELSE 0)

TenureTerm(a, c, count, r) ==
  LET m == tenure_months(c)
  IN (IF neediness_score(a) >= HighNeediness
      THEN (IF m < 3 THEN 60 ELSE IF m < 6 THEN 30 ELSE IF m >= 24 THEN -15 ELSE 0)
      ELSE 0)
     + (IF m < 3
        THEN (IF count > NewCsmCountThreshold THEN 50 ELSE 0)
             + (IF r.last_24_hours > 2 THEN 100 ELSE 0)
        ELSE 0)

\* 2.0 * (0.8 | 1.5 | 1.0), in hundredths
RecencyMultiplier(c) ==
  IF tenure_months(c) >= 24 THEN 160 ELSE IF tenure_months(c) < 6 THEN 300 ELSE 200

ConcentrationTerm(a, c, r) ==
  IF neediness_score(a) >= HighNeediness /\ r.avg_high
  THEN (IF tenure_category(c) \in {"New", "Junior"} THEN 50 ELSE 30)
  ELSE 0

\* cost of placing account a on csm c, as [hi, lo]
ScoreCsm(a, c, books, r) ==
  LET n == Cardinality(DOMAIN books)
      pen == calculate_assignment_recency_penalty(r)
      m == RecencyMultiplier(c)
  IN [hi |-> CapacityPenalty(books[c].count) + (pen.hi * m) \div 100,
      lo |-> BalanceTerm(simulate_add(books, c, a))
             + LoScaleFor(n) * (HealthTerm(a, c) + TenureTerm(a, c, books[c].count, r)
                                + ConcentrationTerm(a, c, r))
             + pen.lo * m * n * n]

\* list.sort(key=score): ascending score, equal scores in evaluation order
RECURSIVE SortByScore(_, _, _)
SortByScore(csms, score, n) ==
  IF csms = <<>> THEN <<>>
  ELSE LET i == CHOOSE j \in 1..Len(csms) :
                  /\ \A k \in 1..Len(csms) : ~ScoreLess(score[csms[k]], score[csms[j]], n)
                  /\ \A k \in 1..(j - 1) : ScoreLess(score[csms[j]], score[csms[k]], n)
           rest == [k \in 1..(Len(csms) - 1) |-> IF k < i THEN csms[k] ELSE csms[k + 1]]
       IN <<csms[i]>> \o SortByScore(rest, score, n)

\* the loop's running minimum: first csm whose score is strictly below all earlier ones
BestOf(csms, score, n) ==
  IF csms = <<>> THEN NoCsm
  ELSE LET i == CHOOSE j \in 1..Len(csms) :
                  /\ \A k \in 1..Len(csms) : ~ScoreLess(score[csms[k]], score[csms[j]], n)
                  /\ \A k \in 1..(j - 1) : ScoreLess(score[csms[j]], score[csms[k]], n)
       IN csms[i]

Prefix(s, k) == IF Len(s) <= k THEN s ELSE SubSeq(s, 1, k)

\* returns the recommendation and the ranked list handed to the reviewer
assign_single_account_optimized(a, books, excluded_csms, rec, table, dbOk) ==
  LET n == Cardinality(DOMAIN books)
      eligible_csms == SelectSeq(eligible_csm_list,
                                 LAMBDA c : c \in DOMAIN books /\ c \notin excluded_csms)
      recency_cache == cache_all_csm_recency_data(SeqRange(eligible_csms), rec, table, dbOk)
      score == [c \in SeqRange(eligible_csms) |-> ScoreCsm(a, c, books, recency_cache[c])]
  IN [best_csm |-> BestOf(eligible_csms, score, n),
      top_alternatives |-> Prefix(SortByScore(eligible_csms, score, n), 6)]

\* a store whose duplicate check also compares the recommended csm
store_recommendation_by_csm(rec, a, c, method, run, dbOk) ==
  IF ~dbOk THEN rec
  ELSE IF \E i \in 1..Len(rec) : /\ rec[i].account_id = a
                                 /\ rec[i].run_id = run
                                 /\ rec[i].assignment_method = method
                                 /\ rec[i].recommended_csm = c
       THEN rec
       ELSE Append(rec, RecRow(a, c, method, run, AgeNow))

\* store_recommendation: skipped when the (account, run, method) tuple is there
store_recommendation(rec, a, c, method, run, dbOk) ==
  IF ~dbOk THEN rec
  ELSE IF \E i \in 1..Len(rec) : /\ rec[i].account_id = a
                                 /\ rec[i].run_id = run
                                 /\ rec[i].assignment_method = method
       THEN rec
       ELSE Append(rec, RecRow(a, c, method, run, AgeNow))

\* the recency queries of one scorer or optimizer call over candidate set E:
\* one bulk fetch unless E is empty, and, when the bulk fetch fails and leaves
\* the cache empty, one query for every penalty evaluation (calls of them)
FetchLog(fetched, E, dbOk, calls) ==
  IF E = {} THEN fetched
  ELSE Append(fetched, [csm_list |-> E, per_candidate |-> IF dbOk THEN 0 ELSE calls])

\* --------------------------------------------------------- batch optimizer
Abs(x) == IF x < 0 THEN -x ELSE x

Accounts(n) == 1..n
EmptyAssignments(n) == [a \in Accounts(n) |-> NoCsm]
Assigned(asg) == {a \in DOMAIN asg : asg[a] # NoCsm}
NewCount(asg, c) == Cardinality({a \in DOMAIN asg : asg[a] = c})

\* a constraint set whose capacity row is "< max_accounts + 2"
FeasibleMappingsLoose(n, books, eligible) ==
  {f \in [Accounts(n) -> eligible] :
     \A c \in eligible : books[c].count + NewCount(f, c) < MaxAccountsPerCsm + 2}

\* the constraint set: one csm per account, current count + new <= ceiling
FeasibleMappings(n, books, eligible) ==
  {f \in [Accounts(n) -> eligible] :
     \A c \in eligible : books[c].count + NewCount(f, c) <= MaxAccountsPerCsm}

\* objective times 10 * |eligible|, as [hi, lo] worth hi*1000 + lo
Objective(f, books, eligible, recency_cache) ==
  LET ne == Cardinality(eligible)
      accts == DOMAIN f
      projected_counts == [c \in eligible |-> books[c].count + NewCount(f, c)]
      projected_neediness ==
        [c \in eligible |->
           books[c].total_neediness
           + SumSet({a \in accts : f[a] = c}, [a \in accts |-> neediness_score(a)])]
      count_dev == [c \in eligible |->
                      Abs(ne * projected_counts[c] - SumSet(eligible, projected_counts))]
      need_dev == [c \in eligible |->
                     Abs(ne * projected_neediness[c] - SumSet(eligible, projected_neediness))]
      pen == [c \in eligible |-> calculate_assignment_recency_penalty(recency_cache[c])]
  IN [hi |-> 3 * ne * SumSet(accts, [a \in accts |-> pen[f[a]].hi]),
      lo |-> 2 * SumSet(eligible, count_dev) + 2 * SumSet(eligible, need_dev)
             + 3 * ne * SumSet(accts, [a \in accts |-> pen[f[a]].lo])]

\* an optimizer that raises when the constraints cannot be met
optimize_batch_raises(n, books, excluded_csms, rec, table, dbOk) ==
  LET eligible == (DOMAIN books) \ excluded_csms
      recency_cache == cache_all_csm_recency_data(eligible, rec, table, dbOk)
      feasible == FeasibleMappings(n, books, eligible)
      obj == [f \in feasible |-> Objective(f, books, eligible, recency_cache)]
  IN IF eligible = {} \/ feasible = {} THEN [status |-> "error", solutions |-> {}]
     ELSE [status |-> "Optimal",
           solutions |-> {f \in feasible : \A g \in feasible : ~PairLess(obj[g], obj[f], 1000)}]

\* what prob.solve can return: the optimal mappings, {} when infeasible;
\* "error" stands for the division by len(eligible_csms) = 0
optimize_batch_with_pulp(n, books, excluded_csms, rec, table, dbOk) ==
  LET eligible == (DOMAIN books) \ excluded_csms
      recency_cache == cache_all_csm_recency_data(eligible, rec, table, dbOk)
      feasible == FeasibleMappings(n, books, eligible)
      obj == [f \in feasible |-> Objective(f, books, eligible, recency_cache)]
  IN IF eligible = {} THEN [status |-> "error", solutions |-> {}]
     ELSE IF feasible = {} THEN [status |-> "Infeasible", solutions |-> {}]
     ELSE [status |-> "Optimal",
           solutions |-> {f \in feasible : \A g \in feasible : ~PairLess(obj[g], obj[f], 1000)}]

RECURSIVE StoreBatch(_, _, _, _, _)
StoreBatch(rec, f, k, run, dbOk) ==
  IF k = 0 THEN rec
  ELSE store_recommendation(StoreBatch(rec, f, k - 1, run, dbOk), k, f[k],
                            "batch_optimized", run, dbOk)

\* ---------------------------------------------------------- greedy fallback
\* the loop over the accounts after the optimizer returned nothing; st is the
\* controller state after the first k accounts
\* a fallback loop that hands every account the exclusions of the first one
RECURSIVE FallbackSameExclusions(_, _, _, _, _, _)
FallbackSameExclusions(k, n, st0, excluded, table, dbRun) ==
  IF k = 0 THEN st0
  ELSE LET st == FallbackSameExclusions(k - 1, n, st0, excluded, table, dbRun)
           cands == (DOMAIN st.books) \ excluded
           r == assign_single_account_optimized(k, st.books, excluded,
                                                st.recs, table, dbRun.dbOk)
       IN IF r.best_csm # NoCsm
          THEN [asg |-> [st.asg EXCEPT ![k] = r.best_csm],
                books |-> simulate_add(st.books, r.best_csm, k),
                recs |-> store_recommendation(st.recs, k, r.best_csm, "single_optimized",
                                              dbRun.run, dbRun.dbOk),
                alts |-> [st.alts EXCEPT ![k] = r.top_alternatives],
                warned |-> st.warned,
                fetched |-> FetchLog(st.fetched, cands, dbRun.dbOk, Cardinality(cands))]
          ELSE [st EXCEPT !.warned = @ \cup {k}]

RECURSIVE Fallback(_, _, _, _, _, _)
Fallback(k, n, st0, excluded, table, dbRun) ==
  IF k = 0 THEN st0
  ELSE LET st == Fallback(k - 1, n, st0, excluded, table, dbRun)
           current_exclusions == excluded \cup {st.asg[a] : a \in Assigned(st.asg)}
           cands == (DOMAIN st.books) \ current_exclusions
           r == assign_single_account_optimized(k, st.books, current_exclusions,
                                                st.recs, table, dbRun.dbOk)
       IN IF r.best_csm # NoCsm
          THEN [asg |-> [st.asg EXCEPT ![k] = r.best_csm],
                books |-> simulate_add(st.books, r.best_csm, k),
                recs |-> store_recommendation(st.recs, k, r.best_csm, "single_optimized",
                                              dbRun.run, dbRun.dbOk),
                alts |-> [st.alts EXCEPT ![k] = r.top_alternatives],
                warned |-> st.warned,
                fetched |-> FetchLog(st.fetched, cands, dbRun.dbOk, Cardinality(cands))]
          ELSE [st EXCEPT !.warned = @ \cup {k}]


\* ------------------------------------------------------------------- Init
BookOf(c, count) ==
  [count |-> count, total_neediness |-> 10 + c, total_revenue |-> c, total_tad |-> 0]

\* one earlier recommendation, under an hour old, for every csm in P, each
\* for an account of its own
PriorRecs(P) ==
  LET s == SetToSeq(P)
  IN [i \in 1..Len(s) |-> RecRow(0 - i, s[i], "single_optimized", 0, Within1h)]

NoVerdict == [kind |-> "none"]

Init ==
  /\ pc = "build"
  /\ batch \in 1..MaxBatch
  /\ claude_client \in BOOLEAN
  /\ recs_ok \in BOOLEAN
  /\ \/ /\ csm_books = [c \in {} |-> BookOf(c, 0)]
        /\ recs = <<>>
     \/ /\ \E k \in {1, NumCsms, NumCsms + 1} :
             csm_books = [c \in AllCsms |->
                            BookOf(c, IF c >= k THEN MaxAccountsPerCsm
                                      ELSE MaxAccountsPerCsm - 1)]
        /\ \E j \in {0, 1, NumCsms - 1, NumCsms} : recs = PriorRecs(1..j)
  /\ start_books = csm_books
  /\ assignments = EmptyAssignments(batch)
  /\ retry_count = 0
  /\ recently_assigned = {}
  /\ assignment_alternatives = [a \in Accounts(batch) |-> <<>>]
  /\ assignments_table = {}
  /\ llm_feedback = "None"
  /\ log = {}
  /\ warned = {}
  /\ clock = 1
  /\ builds = 0
  /\ lastProposal = EmptyAssignments(batch)
  /\ lastVerdict = NoVerdict
  /\ plain_rejects = 0
  /\ eligible_csm_list = SetToSeq(DOMAIN csm_books)
  /\ fetches = <<>>

\* ------------------------------------------------------- persistence step
AssignmentRow(a, c, feedback) ==
  [account_id |-> a, csm_name |-> c, assignment_method |-> "automated_routing",
   llm_review_feedback |-> feedback, age |-> AgeNow]

\* a persistence step that writes, for each account, the csm of the account's
\* oldest recommendation of the run instead of the csm of the mapping
update_first_recommendation(table, rec, asg, feedback) ==
  LET first(a) ==
        IF \E i \in 1..Len(rec) : rec[i].account_id = a
        THEN rec[CHOOSE i \in 1..Len(rec) :
                   /\ rec[i].account_id = a
                   /\ \A j \in 1..(i - 1) : rec[j].account_id # a].recommended_csm
        ELSE asg[a]
  IN [table |-> {r \in table : r.account_id \notin Assigned(asg)}
                \cup {AssignmentRow(a, first(a), feedback) : a \in Assigned(asg)},
      recs |-> rec]

update_assignments_in_snowflake(table, rec, asg, feedback) ==
  [table |-> {r \in table : r.account_id \notin Assigned(asg)}
             \cup {AssignmentRow(a, asg[a], feedback) : a \in Assigned(asg)},
   recs |-> [i \in 1..Len(rec) |->
               IF /\ rec[i].account_id \in Assigned(asg)
                  /\ rec[i].recommended_csm = asg[rec[i].account_id]
               THEN [rec[i] EXCEPT !.was_assigned = TRUE] ELSE rec[i]]]

\* the end of run() once the retry loop is left with mapping asg
UpdateAssignments(asg, feedback, lg, rec) ==
  /\ pc' = "done"
  /\ IF Assigned(asg) # {}
     THEN \E success \in BOOLEAN :
            LET w == update_assignments_in_snowflake(assignments_table, rec, asg, feedback)
            IN IF success
               THEN /\ assignments_table' = w.table
                    /\ recs' = w.recs
                    /\ log' = lg \cup {"successfully_assigned"}
               ELSE /\ assignments_table' = assignments_table
                    /\ recs' = rec
                    /\ log' = lg \cup {"failed_to_update"}
     ELSE /\ log' = lg \cup {"no_valid_assignments"}
          /\ assignments_table' = assignments_table
          /\ recs' = rec

\* --------------------------------------------------------- BUILD_PROPOSAL
\* the controller state a build attempt can leave behind
BuildOutcomes(ra, dbOk) ==
  LET st0 == [asg |-> EmptyAssignments(batch), books |-> csm_books, recs |-> recs,
              alts |-> assignment_alternatives, warned |-> warned, fetched |-> fetches]
      cands == (DOMAIN csm_books) \ ra
  IN IF batch = 1
     THEN LET r == assign_single_account_optimized(1, csm_books, ra, recs,
                                                   assignments_table, dbOk)
          IN IF r.best_csm # NoCsm
             THEN {[st |-> [asg |-> [st0.asg EXCEPT ![1] = r.best_csm],
                            books |-> simulate_add(csm_books, r.best_csm, 1),
                            recs |-> store_recommendation(recs, 1, r.best_csm,
                                                          "single_optimized", clock, dbOk),
                            alts |-> [st0.alts EXCEPT ![1] = r.top_alternatives],
                            warned |-> warned,
                            fetched |-> FetchLog(fetches, cands, dbOk, Cardinality(cands))],
                    crashed |-> FALSE]}
             ELSE {[st |-> [st0 EXCEPT !.warned = @ \cup {1}], crashed |-> FALSE]}
     ELSE LET o == optimize_batch_with_pulp(batch, csm_books, ra, recs,
                                            assignments_table, dbOk)
              pulp_fetched == FetchLog(fetches, cands, dbOk, batch * Cardinality(cands))
          IN IF o.status = "error"
             THEN {[st |-> st0, crashed |-> TRUE]}
             ELSE IF o.status = "Optimal"
             THEN {[st |-> [st0 EXCEPT !.asg = f,
                                       !.recs = StoreBatch(recs, f, batch, clock, dbOk),
                                       !.fetched = pulp_fetched],
                    crashed |-> FALSE] : f \in o.solutions}
             ELSE {[st |-> Fallback(batch, batch, [st0 EXCEPT !.fetched = pulp_fetched],
                                    ra, assignments_table, [dbOk |-> dbOk, run |-> clock]),
                    crashed |-> FALSE]}

\* a valve that opens only when the exclusions outnumber the pool
SafetyValveStrict(found, books) ==
  LET eligible_count == Cardinality(DOMAIN books)
      excluded_count == Cardinality(found)
  IN IF excluded_count > eligible_count /\ eligible_count > 0 THEN {} ELSE found

\* the safety valve of run(): drop the exclusions when they cover the pool
SafetyValve(found, books) ==
  LET eligible_count == Cardinality(DOMAIN books)
      excluded_count == Cardinality(found)
  IN IF excluded_count >= eligible_count /\ eligible_count > 0 THEN {} ELSE found

\* one iteration of the retry loop up to the reviewer call, and the rest of
\* run() when the loop is left without a review
BuildProposal ==
  /\ pc = "build"
  /\ LET found == get_recently_assigned_csms(assignments, batch, recs,
                                             assignments_table, recs_ok)
         ra == SafetyValve(found, csm_books)
     IN \E o \in BuildOutcomes(ra, recs_ok) :
          /\ recently_assigned' = ra
          /\ assignments' = o.st.asg
          /\ csm_books' = o.st.books
          /\ assignment_alternatives' = o.st.alts
          /\ warned' = o.st.warned
          /\ fetches' = o.st.fetched
          /\ builds' = builds + 1
          /\ lastProposal' = o.st.asg
          /\ IF o.crashed
             THEN /\ pc' = "crashed"
                  /\ log' = log \cup {"error_during_execution"}
                  /\ recs' = o.st.recs
                  /\ assignments_table' = assignments_table
             ELSE IF Assigned(o.st.asg) # {} /\ claude_client
             THEN /\ pc' = "review"
                  /\ log' = log
                  /\ recs' = o.st.recs
                  /\ assignments_table' = assignments_table
             ELSE UpdateAssignments(o.st.asg, llm_feedback, log, o.st.recs)
  /\ UNCHANGED <<batch, claude_client, recs_ok, start_books, retry_count,
                 llm_feedback, clock, lastVerdict, plain_rejects, eligible_csm_list>>

\* ------------------------------------------------------------ AWAIT_REVIEW
\* what the reviewer call can produce: a JSON verdict, a reply without JSON,
\* or an exception inside review_assignments_with_llm
ConfidenceChoices == {59, 60}

ReviewOutcomes(n) ==
  {[kind |-> "json", approve |-> ap, confidence_score |-> cf, critical_issues |-> ci,
    specific_reassignments |-> sr] :
     ap \in BOOLEAN, cf \in ConfidenceChoices, ci \in BOOLEAN,
     sr \in {m \in [Accounts(n) -> 0..UnknownCsm] :
               Cardinality(Assigned(m)) <= MaxSubstitutions}}
  \cup {[kind |-> "nojson", approve |-> TRUE, confidence_score |-> 0,
         critical_issues |-> FALSE, specific_reassignments |-> EmptyAssignments(n)],
        [kind |-> "raise", approve |-> TRUE, confidence_score |-> 100,
         critical_issues |-> FALSE, specific_reassignments |-> EmptyAssignments(n)]}

\* a reviewer step whose confidence test is "<= 60"
review_confidence_inclusive(asg, v) ==
  IF v.kind = "raise"
  THEN [should_rerun |-> FALSE, feedback |-> "LLM review failed", revised |-> asg]
  ELSE [should_rerun |-> (~v.approve \/ v.confidence_score <= 60 \/ v.critical_issues),
        feedback |-> IF v.kind = "nojson" THEN "Could not parse LLM response"
                     ELSE "reviewer feedback",
        revised |-> [a \in DOMAIN asg |->
                       IF asg[a] # NoCsm /\ v.specific_reassignments[a] # NoCsm
                       THEN v.specific_reassignments[a] ELSE asg[a]]]

\* (should_rerun, feedback, revised_assignments)
review_assignments_with_llm(asg, v) ==
  IF v.kind = "raise"
  THEN [should_rerun |-> FALSE, feedback |-> "LLM review failed", revised |-> asg]
  ELSE [should_rerun |-> (~v.approve \/ v.confidence_score < 60 \/ v.critical_issues),
        feedback |-> IF v.kind = "nojson" THEN "Could not parse LLM response"
                     ELSE "reviewer feedback",
        revised |-> [a \in DOMAIN asg |->
                       IF asg[a] # NoCsm /\ v.specific_reassignments[a] # NoCsm
                       THEN v.specific_reassignments[a] ELSE asg[a]]]

\* the alternates shown in the prompt for account a
DisclosedAlternates(alts, a) == SeqRange(Prefix(alts[a], 5))

RECURSIVE RevertAll(_, _, _)
RevertAll(books, asg, k) ==
  IF k = 0 THEN books
  ELSE LET b == RevertAll(books, asg, k - 1)
       IN IF asg[k] # NoCsm THEN simulate_remove(b, asg[k], k) ELSE b

\* applies the revised mapping account by account; a csm without a book
\* raises KeyError and leaves the books as they are at that point
RECURSIVE ApplyAll(_, _, _)
ApplyAll(st, revised, k) ==
  IF k = 0 THEN st
  ELSE LET b == ApplyAll(st, revised, k - 1)
       IN IF b.crashed \/ revised[k] = NoCsm THEN b
          ELSE IF revised[k] \notin DOMAIN b.books THEN [b EXCEPT !.crashed = TRUE]
          ELSE [b EXCEPT !.books = simulate_add(@, revised[k], k)]

\* while retry_count <= max_retries
LoopContinues(rc) == rc <= max_retries

\* a rerun test that still retries at retry_count = max_retries
RetriesRemainingInclusive(rc) == rc <= max_retries

\* the "retry_count < max_retries" half of the rerun test
RetriesRemaining(rc) == rc < max_retries

\* a loop exit that logs every reviewed outcome as approved
FinalizeLogLineApproved(should_rerun) == "llm_approved"

\* the log line written when the loop is left after a review
FinalizeLogLine(should_rerun) ==
  IF should_rerun THEN "max_retries_reached" ELSE "llm_approved"

\* the reviewer call returns: review_assignments_with_llm has its reply
ReceiveVerdict ==
  /\ pc = "review"
  /\ \E v \in ReviewOutcomes(batch) : lastVerdict' = v
  /\ pc' = "verdict"
  /\ UNCHANGED <<batch, claude_client, recs_ok, csm_books, start_books, assignments,
                 retry_count, recently_assigned, assignment_alternatives, recs,
                 assignments_table, llm_feedback, log, warned, clock, builds,
                 lastProposal, plain_rejects, eligible_csm_list, fetches>>

PlainReject(v) ==
  v.kind = "json" /\ ~v.approve /\ Assigned(v.specific_reassignments) = {}

\* everything run() does with the reply, up to the next reviewer call or the
\* end of the run
ApplyVerdict ==
  /\ pc = "verdict"
  /\ LET v == lastVerdict
         r == review_assignments_with_llm(assignments, v)
     IN /\ llm_feedback' = r.feedback
        /\ plain_rejects' = IF PlainReject(v) THEN plain_rejects + 1 ELSE plain_rejects
        /\ IF r.should_rerun /\ RetriesRemaining(retry_count)
           THEN IF r.revised # assignments
                THEN LET applied == ApplyAll([books |-> RevertAll(csm_books, assignments, batch),
                                              crashed |-> FALSE], r.revised, batch)
                     IN /\ csm_books' = applied.books
                        /\ UNCHANGED <<retry_count, clock, lastVerdict>>
                        /\ IF applied.crashed
                           THEN /\ pc' = "crashed"
                                /\ log' = log \cup {"error_during_execution"}
                                /\ assignments' = assignments
                                /\ UNCHANGED <<recs, assignments_table>>
                           ELSE /\ assignments' = r.revised
                                /\ UpdateAssignments(r.revised, r.feedback, log, recs)
                ELSE /\ retry_count' = retry_count + 1
                     /\ csm_books' = IF batch = 1
                                     THEN RevertAll(csm_books, assignments, batch)
                                     ELSE csm_books
                     /\ clock' \in {clock, clock + 1}
                     /\ IF LoopContinues(retry_count + 1)
                        THEN \* the next iteration starts with assignments = {}
                             /\ assignments' = EmptyAssignments(batch)
                             /\ pc' = "build"
                             /\ log' = log
                             /\ lastVerdict' = NoVerdict
                             /\ UNCHANGED <<recs, assignments_table>>
                        ELSE /\ UpdateAssignments(assignments, r.feedback, log, recs)
                             /\ UNCHANGED <<assignments, lastVerdict>>
           ELSE /\ UpdateAssignments(assignments, r.feedback,
                                     log \cup {FinalizeLogLine(r.should_rerun)}, recs)
                /\ UNCHANGED <<assignments, csm_books, retry_count, clock, lastVerdict>>
  /\ UNCHANGED <<batch, claude_client, recs_ok, start_books, recently_assigned,
                 assignment_alternatives, warned, builds, lastProposal,
                 eligible_csm_list, fetches>>

Next == BuildProposal \/ ReceiveVerdict \/ ApplyVerdict

Spec == Init /\ [][Next]_vars

\* ----------------------------------------------------------------- claims

\* C1: a run builds at most max_retries + 1 proposals and retry_count never
\* passes max_retries; once the (max_retries + 1)-th proposal has its verdict,
\* the controller's next step finalizes, whatever the verdict says.
RetryBound ==
  /\ [](builds <= max_retries + 1 /\ retry_count <= max_retries)
  /\ [][(pc = "verdict" /\ builds = max_retries + 1) => pc' = "done"]_vars

\* the third proposal was rejected and the run finalized all the same
ThirdAttemptFinalized ==
  /\ pc = "done"
  /\ builds = max_retries + 1
  /\ lastVerdict.kind = "json"
  /\ ~lastVerdict.approve

\* C2: a substitution naming an agent that was not among the account's
\* disclosed alternates is ignored: the account ends with its proposed agent
\* or with a disclosed alternate, and no run is aborted by a verdict.
SubstitutionContainment ==
  /\ pc = "crashed" => lastVerdict = NoVerdict
  /\ pc = "done" =>
       \A a \in Accounts(batch) :
         assignments[a] # lastProposal[a] =>
           assignments[a] \in DisclosedAlternates(assignment_alternatives, a)

\* C3: an agent who receives accounts in the finalized mapping holds at most
\* MaxAccountsPerCsm accounts once they are added to the count the run
\* started with.
CapacityInvariant ==
  pc = "done" =>
    \A c \in DOMAIN start_books :
      NewCount(assignments, c) > 0 =>
        start_books[c].count + NewCount(assignments, c) <= MaxAccountsPerCsm

\* C4: after max_retries + 1 plain rejections the run hands the last proposal,
\* which is not empty, to the persistence step, and the rows a successful
\* persistence step leaves behind are the rows of that proposal.
ForceFinalizedIsLastProposal ==
  (pc = "done" /\ plain_rejects = max_retries + 1) =>
    /\ assignments = lastProposal
    /\ Assigned(assignments) # {}
    /\ "no_valid_assignments" \notin log
    /\ "successfully_assigned" \in log =>
         \A a \in Assigned(lastProposal) :
           \A row \in assignments_table :
             row.account_id = a => row.csm_name = lastProposal[a]
    /\ "successfully_assigned" \in log =>
         \A a \in Assigned(lastProposal) :
           \E row \in assignments_table : row.account_id = a

\* three plain rejections, a successful persistence step, and an earlier
\* attempt that had recommended another agent for some account
ThreeRejectionsCommitted ==
  /\ pc = "done"
  /\ plain_rejects = max_retries + 1
  /\ "successfully_assigned" \in log
  /\ \E i \in 1..Len(recs) :
       /\ recs[i].account_id \in Accounts(batch)
       /\ recs[i].recommended_csm # assignments[recs[i].account_id]

\* C5: whenever an attempt is about to build a proposal, every agent's book
\* is the book the run started with.
RetryRevertsBooks == pc = "build" => csm_books = start_books

\* C6: when a run finalizes a non-empty mapping, the books are the starting
\* books plus the accounts of that mapping.
BooksReflectMapping ==
  (pc = "done" /\ Assigned(assignments) # {}) =>
    csm_books = ApplyAll([books |-> start_books, crashed |-> FALSE],
                         assignments, batch).books

\* C7 as stated: a verdict with approve = true and no critical issue makes the
\* next step finalize the proposal unchanged, without another build.
ApproveFinalizes ==
  [][(/\ pc = "verdict"
      /\ lastVerdict.kind = "json"
      /\ lastVerdict.approve
      /\ ~lastVerdict.critical_issues)
     => (pc' = "done" /\ assignments' = assignments /\ builds' = builds)]_vars

\* C7 amended: a verdict with approve = true, no critical issue and a
\* confidence score of at least 60 makes the next step finalize the proposal
\* unchanged, books included, whatever substitutions the verdict carries.
ApproveConfidentFinalizes ==
  [][(/\ pc = "verdict"
      /\ lastVerdict.kind = "json"
      /\ lastVerdict.approve
      /\ ~lastVerdict.critical_issues
      /\ lastVerdict.confidence_score >= 60)
     => (/\ pc' = "done"
         /\ assignments' = assignments
         /\ csm_books' = csm_books
         /\ retry_count' = retry_count
         /\ builds' = builds)]_vars

\* an approving, confident verdict that carried a substitution was finalized
\* with the proposal as built
ApprovedWithSubstitution ==
  /\ pc = "done"
  /\ lastVerdict.kind = "json"
  /\ lastVerdict.approve
  /\ ~lastVerdict.critical_issues
  /\ lastVerdict.confidence_score >= 60
  /\ Assigned(lastVerdict.specific_reassignments) # {}
  /\ assignments = lastProposal

\* C8: a verdict that does not approve and substitutes, for accounts of the
\* proposal, disclosed alternates other than the proposed agent makes the next
\* step finalize the proposal with exactly those accounts changed.
SubstitutionsFinalize ==
  [][(/\ pc = "verdict"
      /\ lastVerdict.kind = "json"
      /\ ~lastVerdict.approve
      /\ Assigned(lastVerdict.specific_reassignments) # {}
      /\ \A a \in Assigned(lastVerdict.specific_reassignments) :
           /\ assignments[a] # NoCsm
           /\ lastVerdict.specific_reassignments[a] # assignments[a]
           /\ lastVerdict.specific_reassignments[a]
                \in DisclosedAlternates(assignment_alternatives, a))
     => (/\ pc' = "done"
         /\ \A a \in Accounts(batch) :
              assignments'[a] = IF lastVerdict.specific_reassignments[a] # NoCsm
                                THEN lastVerdict.specific_reassignments[a]
                                ELSE assignments[a])]_vars

\* C9: when the run has ended, every account of the batch is in the mapping
\* handed to the persistence step or was reported as having no eligible csm.
NoAccountDropped ==
  /\ pc = "done" =>
       \A a \in Accounts(batch) : assignments[a] # NoCsm \/ a \in warned
  /\ pc = "crashed" => \A a \in Accounts(batch) : a \in warned

ReviewerFailureIsFatal ==
  (lastVerdict.kind = "raise" /\ pc # "verdict") =>
    /\ pc = "crashed"
    /\ "successfully_assigned" \notin log
    /\ "failed_to_update" \notin log

\* ------------------------------------------- the exclusion governor alone
\* get_recently_assigned_csms called on a stored history, for batch sizes of
\* every tier, and called again after the history has grown by one row
BatchSizes == {1, 3, 5, 6, 20, 21}

\* n recommendation rows of age g for csm 1, one account each
History(n, g) ==
  [i \in 1..n |-> RecRow(0 - i, 1, "single_optimized", 0, g)]

\* p placements of csm 1 made and finalized within the last hour: for each
\* a recommendation row and the row of the assignments table
PlacementRecs(p) ==
  [k \in 1..p |-> [RecRow(k, 1, "batch_optimized", 0, Within1h) EXCEPT !.was_assigned = TRUE]]

PlacementRows(p) == {AssignmentRow(k, 1, "None") : k \in 1..p}

GovInit ==
  /\ pc = "gov_call"
  /\ batch \in BatchSizes
  /\ claude_client = FALSE
  /\ recs_ok \in BOOLEAN
  /\ csm_books = [c \in AllCsms |-> BookOf(c, NewCsmCountThreshold)]
  /\ start_books = csm_books
  /\ assignments \in {[a \in Accounts(1) |-> c] : c \in {NoCsm, NumCsms}}
  /\ retry_count = 0
  /\ recently_assigned = {}
  /\ assignment_alternatives = [a \in Accounts(1) |-> <<>>]
  /\ \E p \in 0..MaxPlacements :
       /\ \E n \in 0..MaxHistory :
            \E g \in {Within1h, Within2h, Within4h, Within24h} :
              recs = History(n, g) \o PlacementRecs(p)
       /\ assignments_table = PlacementRows(p)
  /\ llm_feedback = "None"
  /\ log = {}
  /\ warned = {}
  /\ clock = 1
  /\ builds = 0
  /\ lastProposal = EmptyAssignments(1)
  /\ lastVerdict = NoVerdict
  /\ plain_rejects = 0
  /\ eligible_csm_list = SetToSeq(DOMAIN csm_books)
  /\ fetches = <<>>

\* one call of the governor; builds counts the calls
GovCall ==
  /\ pc = "gov_call"
  /\ recently_assigned' = get_recently_assigned_csms(assignments, batch, recs,
                                                     assignments_table, recs_ok)
  /\ builds' = builds + 1
  /\ pc' = "gov_done"
  /\ UNCHANGED <<batch, claude_client, recs_ok, csm_books, start_books, assignments,
                 retry_count, assignment_alternatives, recs, assignments_table,
                 llm_feedback, log, warned, clock, lastProposal, lastVerdict,
                 plain_rejects, eligible_csm_list, fetches>>

\* one more row is recorded for some csm, in either table, before the next call
GovRecord ==
  /\ pc = "gov_done"
  /\ builds < MaxGovCalls
  /\ \E c \in AllCsms :
       \/ /\ \E g \in {Within1h, Within2h, Within4h, Within24h} :
               recs' = Append(recs, RecRow(0 - (Len(recs) + 1), c, "batch_optimized", 0, g))
          /\ assignments_table' = assignments_table
       \/ /\ assignments_table' =
               assignments_table
                 \cup {AssignmentRow(0 - (Cardinality(assignments_table) + 1), c, "None")}
          /\ recs' = recs
  /\ pc' = "gov_call"
  /\ UNCHANGED <<batch, claude_client, recs_ok, csm_books, start_books, assignments,
                 retry_count, recently_assigned, assignment_alternatives,
                 llm_feedback, log, warned, clock, builds, lastProposal, lastVerdict,
                 plain_rejects, eligible_csm_list, fetches>>

GovNext == GovCall \/ GovRecord

GovSpec == GovInit /\ [][GovNext]_vars

ExclusionMonotone ==
  [][(pc = "gov_call" /\ pc' = "gov_done")
     => recently_assigned \subseteq recently_assigned']_vars

\* csm 1 was over the medium tier's maximum, got one more row, and is still
\* excluded by the second call
StillExcludedAfterGrowth ==
  /\ pc = "gov_done"
  /\ builds = 2
  /\ batch = 6
  /\ recs_ok
  /\ Len(recs) >= 4
  /\ \A i \in 1..Len(recs) : recs[i].recommended_csm = 1 /\ recs[i].age = Within1h
  /\ recs[Len(recs)].assignment_method = "batch_optimized"
  /\ 1 \in recently_assigned

\* C14: the exclusion set a build attempt used is empty or smaller than the
\* set of csms with a book, so whenever some csm has a book the attempt's
\* first placement had a csm that was not excluded.
SafetyValveHolds ==
  (builds > 0 /\ DOMAIN csm_books # {}) =>
    /\ recently_assigned = {}
         \/ Cardinality(recently_assigned) < Cardinality(DOMAIN csm_books)
    /\ DOMAIN csm_books \ recently_assigned # {}

\* every csm had a row inside the window, the attempt ran without exclusions
\* and proposed an agent
ValveFired ==
  /\ builds = 1
  /\ recs_ok
  /\ DOMAIN csm_books # {}
  /\ \A c \in DOMAIN csm_books :
       \E i \in 1..Len(recs) :
         /\ recs[i].recommended_csm = c
         /\ recs[i].account_id < 0
         /\ recs[i].age <= Within2h
  /\ recently_assigned = {}
  /\ Assigned(assignments) # {}

\* C15: a build attempt for two or more accounts whose capacity constraints
\* no mapping onto the non-excluded csms can meet does not end the run with
\* an error: account by account, in order, the proposal holds the csm that
\* single-account scoring picks on the books with the earlier placements
\* added and the earlier csms excluded, and the books hold every placement.
InfeasibleFallsBack ==
  [][(/\ pc = "build"
      /\ batch > 1
      /\ LET ra == SafetyValve(get_recently_assigned_csms(assignments, batch, recs,
                                                          assignments_table, recs_ok),
                               csm_books)
         IN /\ (DOMAIN csm_books) \ ra # {}
            /\ FeasibleMappings(batch, csm_books, (DOMAIN csm_books) \ ra) = {})
     => (/\ pc' # "crashed"
         /\ "error_during_execution" \notin log'
         /\ LET ra == SafetyValve(get_recently_assigned_csms(assignments, batch, recs,
                                                             assignments_table, recs_ok),
                                  csm_books)
                booksAfter[k \in 0..batch] ==
                  IF k = 0 THEN csm_books
                  ELSE IF assignments'[k] # NoCsm
                  THEN simulate_add(booksAfter[k - 1], assignments'[k], k)
                  ELSE booksAfter[k - 1]
                recsAfter[k \in 0..batch] ==
                  IF k = 0 THEN recs
                  ELSE IF assignments'[k] # NoCsm
                  THEN store_recommendation(recsAfter[k - 1], k, assignments'[k],
                                            "single_optimized", clock, recs_ok)
                  ELSE recsAfter[k - 1]
            IN /\ \A k \in Accounts(batch) :
                    assignments'[k] =
                      assign_single_account_optimized(
                        k, booksAfter[k - 1],
                        ra \cup ({assignments'[j] : j \in 1..(k - 1)} \ {NoCsm}),
                        recsAfter[k - 1], assignments_table, recs_ok).best_csm
               /\ csm_books' = booksAfter[batch])]_vars

\* every csm started at the ceiling and the fallback placed the whole batch
FallbackPlacedAll ==
  /\ batch > 1
  /\ builds = 1
  /\ pc = "review"
  /\ \A c \in DOMAIN start_books : start_books[c].count >= MaxAccountsPerCsm
  /\ DOMAIN start_books # {}
  /\ Assigned(assignments) = Accounts(batch)
  /\ \A a \in Accounts(batch) : assignment_alternatives[a] # <<>>

\* C16: a build attempt that has no csm to choose from ends the run with the
\* unassignable outcome: the run is over after that one attempt, without a
\* verdict and without a retry, every account has its warning and the log
\* says that no assignment could be made.
EmptyCandidatesUnassignable ==
  (builds >= 1 /\ (DOMAIN csm_books) \ recently_assigned = {}) =>
    /\ pc = "done"
    /\ builds = 1
    /\ retry_count = 0
    /\ lastVerdict = NoVerdict
    /\ "no_valid_assignments" \in log
    /\ \A a \in Accounts(batch) : a \in warned

\* C17: when the optimizer has an optimal mapping for a batch of two or more
\* accounts, the proposal of the attempt is such a mapping: every account has
\* one csm that has a book and is not excluded, and no csm's count plus its
\* new accounts passes MaxAccountsPerCsm.
OptimizerRespectsConstraints ==
  [][(pc = "build" /\ batch > 1)
     => LET ra == SafetyValve(get_recently_assigned_csms(assignments, batch, recs,
                                                         assignments_table, recs_ok),
                              csm_books)
            o == optimize_batch_with_pulp(batch, csm_books, ra, recs,
                                          assignments_table, recs_ok)
        IN o.status = "Optimal" =>
             /\ assignments' \in o.solutions
             /\ DOMAIN assignments' = Accounts(batch)
             /\ \A a \in Accounts(batch) : assignments'[a] \in (DOMAIN csm_books) \ ra
             /\ \A c \in DOMAIN csm_books :
                  csm_books[c].count + NewCount(assignments', c) <= MaxAccountsPerCsm]_vars

\* an optimizer mapping in which a csm one below the ceiling got one account
\* and a csm at the ceiling got none
OptimizerFilledToCeiling ==
  /\ batch > 1
  /\ builds = 1
  /\ pc \in {"review", "done"}
  /\ Assigned(assignments) = Accounts(batch)
  /\ \A a \in Accounts(batch) : assignment_alternatives[a] = <<>>
  /\ \E c \in DOMAIN start_books :
       /\ start_books[c].count = MaxAccountsPerCsm - 1
       /\ NewCount(assignments, c) = 1
  /\ \E c \in DOMAIN start_books :
       /\ start_books[c].count = MaxAccountsPerCsm
       /\ NewCount(assignments, c) = 0

\* C18: in a single-account run the recommended csm is at or above
\* MaxAccountsPerCsm only if every csm evaluated in that attempt is.
CapacityDominates ==
  (/\ batch = 1
   /\ lastProposal[1] # NoCsm
   /\ start_books[lastProposal[1]].count >= MaxAccountsPerCsm)
  => \A c \in (DOMAIN start_books) \ recently_assigned :
       start_books[c].count >= MaxAccountsPerCsm

\* C19: at every point of a run each account of the batch has at most one
\* row in the recommendations store.
OneRecordPerAccount ==
  \A a \in Accounts(batch) :
    Cardinality({i \in 1..Len(recs) : recs[i].account_id = a}) <= 1

\* C20: the store never holds two rows with the same account, run id and
\* method, and in every store a build attempt starts from or leaves behind a
\* call for a tuple that has a row returns the store as it is, so that a call
\* repeated with the same tuple, whatever csm it names, changes nothing.
StoreIdempotent ==
  /\ \A i, j \in 1..Len(recs) :
       (/\ recs[i].account_id = recs[j].account_id
        /\ recs[i].run_id = recs[j].run_id
        /\ recs[i].assignment_method = recs[j].assignment_method) => i = j
  /\ pc \in {"build", "review"} =>
     \A a \in Accounts(batch), c \in AllCsms, run \in 1..clock :
       \A method \in {"single_optimized", "batch_optimized"} :
         LET once == store_recommendation(recs, a, c, method, run, TRUE)
         IN /\ (\E i \in 1..Len(recs) : /\ recs[i].account_id = a
                                        /\ recs[i].run_id = run
                                        /\ recs[i].assignment_method = method)
                 => once = recs
            /\ Len(once) <= Len(recs) + 1
            /\ \A c2 \in AllCsms :
                 store_recommendation(once, a, c2, method, run, TRUE) = once

\* the second attempt of a run proposed another csm within the same second:
\* its call found the first attempt's row and stored nothing
DuplicateSkipped ==
  /\ batch = 1
  /\ recs_ok
  /\ builds = 2
  /\ clock = 1
  /\ pc = "review"
  /\ Cardinality({i \in 1..Len(recs) : recs[i].account_id = 1}) = 1
  /\ \E i \in 1..Len(recs) :
       recs[i].account_id = 1 /\ recs[i].recommended_csm # assignments[1]

\* ------------------------------------------------------- recency snapshot
\* C21: within one run the recency snapshot is fetched at most once for each
\* distinct agent set, across the attempts, the optimizer, the fallback and
\* the accounts of the batch, and no query is made for a single candidate
OneFetchPerAgentSet ==
  /\ \A i, j \in 1..Len(fetches) :
        i # j => fetches[i].csm_list # fetches[j].csm_list
  /\ \A i \in 1..Len(fetches) : fetches[i].per_candidate = 0

\* ------------------------------------------------------- the scorer alone
\* assign_single_account_optimized called for one account, over agent pools
\* large enough for the top-6 list, candidate lists in either order, and
\* recommendation histories of mixed ages; builds counts the calls
Reverse(s) == [i \in 1..Len(s) |-> s[Len(s) + 1 - i]]

OddCsms(k) == {2 * i - 1 : i \in 1..k}

ScoreCsmSets == {OddCsms(k) : k \in {2, 5, MaxScoreCsms}} \cup {AllCsms}

ScoreAccounts == 1..3

\* n rows naming csm r, the first of age g, the next ones one bucket older
\* each, starting over after the oldest bucket
ScoreHistory(r, n, g) ==
  [i \in 1..n |-> RecRow(0 - i, r, "single_optimized", 0, ((g + i - 2) % Within7d) + 1)]

TheAccount == CHOOSE a \in DOMAIN assignments : TRUE

ScoreInit ==
  /\ pc = "score_call"
  /\ batch = 1
  /\ claude_client = FALSE
  /\ recs_ok \in BOOLEAN
  /\ \E S \in ScoreCsmSets : \E equal \in BOOLEAN :
       csm_books = [c \in S |-> BookOf(IF equal THEN 0 ELSE c, NewCsmCountThreshold)]
  /\ start_books = csm_books
  /\ eligible_csm_list \in {SetToSeq(DOMAIN csm_books), Reverse(SetToSeq(DOMAIN csm_books))}
  /\ \E a \in ScoreAccounts :
       /\ assignments = [x \in {a} |-> NoCsm]
       /\ assignment_alternatives = [x \in {a} |-> <<>>]
       /\ lastProposal = [x \in {a} |-> NoCsm]
  /\ retry_count = 0
  /\ recently_assigned \in {{}, {3}}
  /\ \/ recs = <<>>
     \/ \E n \in 1..MaxHistory :
          \E g \in {Within1h, Within4h} : recs = ScoreHistory(1, n, g)
  /\ assignments_table = {}
  /\ llm_feedback = "None"
  /\ log = {}
  /\ warned = {}
  /\ clock = 1
  /\ builds = 0
  /\ lastVerdict = NoVerdict
  /\ plain_rejects = 0
  /\ fetches = <<>>

\* one call of the scorer, with the recommendation it stores before returning
ScoreCall ==
  /\ pc = "score_call"
  /\ LET a == TheAccount
         r == assign_single_account_optimized(a, csm_books, recently_assigned, recs,
                                              assignments_table, recs_ok)
     IN /\ assignments' = [x \in {a} |-> r.best_csm]
        /\ assignment_alternatives' = [x \in {a} |-> r.top_alternatives]
        /\ recs' = IF r.best_csm # NoCsm
                   THEN store_recommendation(recs, a, r.best_csm, "single_optimized",
                                             clock, recs_ok)
                   ELSE recs
  /\ builds' = builds + 1
  /\ pc' = "score_done"
  /\ UNCHANGED <<batch, claude_client, recs_ok, csm_books, start_books, retry_count,
                 recently_assigned, assignments_table, llm_feedback, log, warned, clock,
                 lastProposal, lastVerdict, plain_rejects, eligible_csm_list, fetches>>

\* the caller asks again, as the retry loop does after a rejection
ScoreRepeat ==
  /\ pc = "score_done"
  /\ builds < max_retries
  /\ pc' = "score_call"
  /\ UNCHANGED <<batch, claude_client, recs_ok, csm_books, start_books, assignments,
                 retry_count, recently_assigned, assignment_alternatives, recs,
                 assignments_table, llm_feedback, log, warned, clock, builds,
                 lastProposal, lastVerdict, plain_rejects, eligible_csm_list, fetches>>

ScoreNext == ScoreCall \/ ScoreRepeat

ScoreSpec == ScoreInit /\ [][ScoreNext]_vars

\* C22: the ranked list of a scorer call is in ascending order of cost,
\* candidates of equal cost stand in the order of their identifiers, the
\* recommended csm is the first entry, and a repeated call on the same books
\* and recency returns the same list and the same recommendation
RankedByCostThenIdentifier ==
  [][pc = "score_call" =>
       LET a == TheAccount
           n == Cardinality(DOMAIN csm_books)
           cands == (DOMAIN csm_books) \ recently_assigned
           cache == cache_all_csm_recency_data(cands, recs, assignments_table, recs_ok)
           cost == [c \in cands |-> ScoreCsm(a, c, csm_books, cache[c])]
           L == assignment_alternatives'[a]
       IN /\ \A i, j \in 1..Len(L) :
                i < j => /\ ~ScoreLess(cost[L[j]], cost[L[i]], n)
                         /\ ~ScoreLess(cost[L[i]], cost[L[j]], n) => L[i] < L[j]
          /\ Len(L) > 0 => assignments'[a] = L[1]
          /\ (builds >= 1 /\ ~recs_ok) =>
                /\ assignments' = assignments
                /\ assignment_alternatives' = assignment_alternatives]_vars

\* C23: an account of neediness 9 and health Red, five csms of tenures New,
\* Junior, Mid, Senior and Expert with equal books, health mixes and recency:
\* the recommended csm is the Senior or the Expert one
ScenarioA ==
  (/\ pc = "score_done"
   /\ TheAccount = 1
   /\ DOMAIN csm_books = OddCsms(5)
   /\ \A c, d \in DOMAIN csm_books :
        csm_books[c] = csm_books[d] /\ health_distribution(c) = health_distribution(d)
   /\ recently_assigned = {}
   /\ ~recs_ok \/ (builds = 1 /\ \A i \in 1..Len(recs) : recs[i].account_id = 1))
  => tenure_category(assignments[1]) \in {"Senior", "Expert"}

\* the five-agent scenario has been scored, with the store reachable
ScenarioAScored ==
  /\ pc = "score_done"
  /\ TheAccount = 1
  /\ neediness_score(1) = 9 /\ health_segment(1) = "Red"
  /\ DOMAIN csm_books = OddCsms(5)
  /\ {tenure_category(c) : c \in DOMAIN csm_books}
       = {"New", "Junior", "Mid", "Senior", "Expert"}
  /\ \A c, d \in DOMAIN csm_books : csm_books[c] = csm_books[d]
  /\ recently_assigned = {}
  /\ recs_ok /\ builds = 1 /\ Len(recs) = 1
  /\ tenure_category(assignments[1]) = "Expert"

\* C24: when the ranked list of the proposal under review has six entries,
\* the review request names the recommended csm and the five ranked after it
ReviewDisclosesNextFive ==
  (pc = "score_done" /\ Len(assignment_alternatives[TheAccount]) >= 6)
  => LET L == assignment_alternatives[TheAccount]
     IN DisclosedAlternates(assignment_alternatives, TheAccount) = {L[i] : i \in 1..6}

\* C27: the recency penalty of a csm is 1000000 n1^2 + 100000 d4^2
\* + 10000 d24^2 + 50 max(0, n7 - 5) + 50 when the recent average neediness
\* is above 7, for the cache entries the scorer meets and for all counts
\* up to MaxHistory
PenaltyFormula ==
  LET PenaltyAmount(n1, n4, n24, n7, high) ==
        1000000 * n1 * n1
        + 100000 * Max(0, n4 - n1) * Max(0, n4 - n1)
        + 10000 * Max(0, n24 - n4) * Max(0, n24 - n4)
        + 50 * Max(0, n7 - 5)
        + (IF high THEN 50 ELSE 0)
  IN
  /\ pc \in {"score_call", "score_done"} =>
       LET cache == cache_all_csm_recency_data(DOMAIN csm_books, recs,
                                               assignments_table, recs_ok)
       IN \A c \in DOMAIN csm_books :
            LET p == calculate_assignment_recency_penalty(cache[c])
            IN 1000 * p.hi + p.lo
               = PenaltyAmount(cache[c].last_1_hour, cache[c].last_4_hours,
                               cache[c].last_24_hours, cache[c].recent_assignments_7d,
                               cache[c].avg_high)
  /\ (pc = "score_call" /\ builds = 0 /\ recs = <<>>) =>
       \A n1, n4, n24, n7 \in 0..MaxHistory : \A high \in BOOLEAN :
         LET p == calculate_assignment_recency_penalty(
                    [last_1_hour |-> n1, last_4_hours |-> n4, last_24_hours |-> n24,
                     recent_assignments_7d |-> n7, avg_high |-> high])
         IN 1000 * p.hi + p.lo = PenaltyAmount(n1, n4, n24, n7, high)

\* a scorer call has met a csm with rows in every window
PenaltyAllTerms ==
  /\ pc = "score_done"
  /\ recs_ok
  /\ \E c \in DOMAIN csm_books :
       LET r == cache_all_csm_recency_data({c}, recs, assignments_table, recs_ok)[c]
       IN /\ r.last_1_hour >= 2
          /\ r.last_4_hours - r.last_1_hour >= 2
          /\ r.last_24_hours - r.last_4_hours >= 1
          /\ r.recent_assignments_7d > 5

\* ---------------------------------------------------------- greedy fallback
\* C25: in a build attempt that falls back to account-by-account placement,
\* a csm given an account is not a candidate for the later accounts of the
\* batch: no csm gets two accounts, and an account is left unassigned, with
\* the warning, exactly when every non-excluded csm already has an earlier one
FallbackOneAccountPerCsm ==
  [][(/\ pc = "build"
      /\ batch > 1
      /\ LET ra == SafetyValve(get_recently_assigned_csms(assignments, batch, recs,
                                                          assignments_table, recs_ok),
                               csm_books)
         IN /\ (DOMAIN csm_books) \ ra # {}
            /\ FeasibleMappings(batch, csm_books, (DOMAIN csm_books) \ ra) = {})
     => LET ra == SafetyValve(get_recently_assigned_csms(assignments, batch, recs,
                                                         assignments_table, recs_ok),
                              csm_books)
            earlier(k) == {assignments'[j] : j \in 1..(k - 1)} \ {NoCsm}
        IN /\ \A c \in DOMAIN csm_books : NewCount(assignments', c) <= 1
           /\ \A k \in Accounts(batch) :
                /\ assignments'[k] \notin earlier(k)
                /\ assignments'[k] = NoCsm <=> ((DOMAIN csm_books) \ ra) \subseteq earlier(k)
                /\ assignments'[k] = NoCsm => k \in warned']_vars

\* the fallback ran out of csms: the first account took the only csm left
FallbackRanOut ==
  /\ batch > 1
  /\ builds = 1
  /\ DOMAIN start_books # {}
  /\ \A c \in DOMAIN start_books : start_books[c].count >= MaxAccountsPerCsm
  /\ Cardinality(recently_assigned) = Cardinality(DOMAIN start_books) - 1
  /\ assignments[1] \in (DOMAIN start_books) \ recently_assigned
  /\ \A a \in Accounts(batch) \ {1} : assignments[a] = NoCsm /\ a \in warned

\* ------------------------------------------------------ unparseable reply
\* C26: a reviewer reply without a JSON object counts as an approval: the
\* run goes on to persistence with the mapping under review and builds no
\* further proposal
UnparseableCountsAsApproval ==
  [][(pc = "verdict" /\ lastVerdict.kind = "nojson")
     => (/\ pc' = "done"
         /\ assignments' = assignments
         /\ retry_count' = retry_count)]_vars

\* ------------------------------------------------------------- termination
\* the positions of run() from which a step is pending
Running == pc \in {"build", "review", "verdict"}

\* run() moves on to another position
RunStep == Running /\ pc' \in {"build", "review", "verdict", "done", "crashed"} \ {pc}

\* run() is one sequential procedure: when every external call returns, the
\* step it is at is taken, and every step of Next changes the position
LiveSpec == Spec /\ WF_pc(RunStep)

\* C28: every run, whatever the reviewer does, leaves the retry loop after
\* finitely many iterations and reaches the end of run(): the persistence
\* step with a mapping or the no-assignment outcome
RunReachesPersistence ==
  <>(/\ pc = "done"
     /\ \/ "no_valid_assignments" \in log
        \/ "successfully_assigned" \in log
        \/ "failed_to_update" \in log)

\* ------------------------------------------------- rebuild after rejection
\* C29: in a run for one account with the store reachable, a rebuild after a
\* rejected attempt whose recommendation is in the store does not propose the
\* csm of the rejected attempt again, unless the csms with a row in the last
\* two hours cover the whole pool and the safety valve drops the exclusions
RebuildAvoidsRejected ==
  [][(/\ pc = "build"
      /\ batch = 1
      /\ recs_ok
      /\ builds >= 1
      /\ lastProposal[1] # NoCsm
      /\ \E i \in 1..Len(recs) : /\ recs[i].account_id = 1
                                 /\ recs[i].recommended_csm = lastProposal[1]
                                 /\ recs[i].age <= Within2h
      /\ LET active == {c \in StoreNames(recs, assignments_table) :
                          \/ \E i \in 1..Len(recs) : /\ recs[i].recommended_csm = c
                                                     /\ recs[i].age <= Within2h
                          \/ \E r \in assignments_table : /\ r.csm_name = c
                                                          /\ r.age <= Within2h}
         IN Cardinality(active) < Cardinality(DOMAIN csm_books))
     => assignments'[1] # lastProposal[1]]_vars

\* the second attempt proposed another csm while the first one was excluded
RebuiltWithOtherCsm ==
  /\ batch = 1
  /\ recs_ok
  /\ builds = 2
  /\ pc = "review"
  /\ \E i, j \in 1..Len(recs) :
       /\ i < j
       /\ recs[i].account_id = 1 /\ recs[j].account_id = 1
       /\ recs[i].recommended_csm \in recently_assigned
       /\ assignments[1] = recs[j].recommended_csm
       /\ assignments[1] # recs[i].recommended_csm

====
